---- MODULE Spec2Model ----
(***************************************************************************)
(* The voice receiver's PacketHandler (src/unnamed/part_000): the router   *)
(* that takes encrypted RTP datagrams, resolves the SSRC in the            *)
(* connection's ssrcMap, decrypts and strips the payload, filters silence  *)
(* for video users, debounces speaking notifications with one timer per    *)
(* SSRC and pushes the payload to the user's audio and video streams.      *)
(*                                                                         *)
(* Bytes are kept where the code inspects them (the decrypted payload, the *)
(* datagram length); the ciphertext is a sealed box that opens only with   *)
(* the key and the nonce it was sealed with; the 24-byte nonce buffer is   *)
(* three segments (bytes 0..3, 4..11, 12..23), the granularity at which    *)
(* parseBuffer writes it.  Time is the event loop's clock in milliseconds. *)
(***************************************************************************)
EXTENDS Integers, Sequences, FiniteSets, TLC

\* ------------------------------------------------------------------ bounds
MaxSinks == 2     \* streams created in one run of the model
Quantum == 125    \* the clock advances by at most this many milliseconds

\* --------------------------------------------------------- program constants
DISCORD_SPEAKING_DELAY == 250
SPEAKING == 1     \* Speaking.FLAGS.SPEAKING

Users == {"u1", "u2"}
Listened == {"u1"}            \* the users streams are requested for
DirSsrcs == {1, 2}            \* SSRCs the connection may list in ssrcMap

LITE == "xsalsa20_poly1305_lite"
SUFFIX == "xsalsa20_poly1305_suffix"
NORMAL == "xsalsa20_poly1305"
Modes == {NORMAL, SUFFIX, LITE}

\* connection.authentication: undefined, or { secret_key, mode } where the
\* key may still be null.
NoAuth == [secret_key |-> "undefined", mode |-> "undefined"]
AuthStates ==
  {NoAuth, [secret_key |-> "null", mode |-> NORMAL]}
    \cup [secret_key : {"K"}, mode : Modes]

\* ------------------------------------------------------------ plaintexts
SILENCE_FRAME == <<248, 255, 254>>
Voice == <<248, 255, 1>>                       \* same length, not silence
ExtSilence == <<190, 222, 0, 0>> \o SILENCE_FRAME
ExtVoice == <<190, 222, 0, 1, 16, 0, 0, 0>> \o Voice
ExtOverrun == <<190, 222, 0, 2, 7>>            \* extension longer than payload
ExtTruncated == <<190, 222>>                   \* marker without a length field

\* ------------------------------------------------------------- datagrams
\* A box opens only with the key and nonce it was sealed with.
Garbage == [key |-> "none", nonce |-> <<"X", "X", "X">>, plain |-> <<>>]

\* The datagram a sender in `mode` builds: 12 header bytes (the SSRC at
\* bytes 8..11), the box (16 MAC bytes and the payload), then the nonce
\* suffix (lite: 4 bytes, suffix: 24 bytes).  Segment tokens: "H" header
\* bytes, "N" the nonce suffix, "Z" zero bytes, "X" any other bytes.
Seal(ssrc, mode, key, plain) ==
  LET boxEnd == 12 + 16 + Len(plain)
      extra == IF mode = LITE THEN 4 ELSE IF mode = SUFFIX THEN 24 ELSE 0
      sealedWith == IF mode = LITE THEN <<"N", "Z", "Z">>
                    ELSE IF mode = SUFFIX THEN <<"N", "N", "N">>
                    ELSE <<"H", "H", "Z">>
  IN [len |-> boxEnd + extra, ssrc |-> ssrc, head |-> <<"H", "H">>,
      tail4 |-> IF mode = LITE THEN "N" ELSE "X",
      tail24 |-> IF mode = SUFFIX THEN <<"N", "N", "N">> ELSE <<"X", "X", "X">>,
      box |-> [key |-> key, nonce |-> sealedWith, plain |-> plain],
      boxEnd |-> boxEnd]

\* A datagram shorter than the 12-byte RTP header.
Runt ==
  [len |-> 8, ssrc |-> 0, head |-> <<"H", "H">>, tail4 |-> "H",
   tail24 |-> <<"X", "X", "X">>, box |-> Garbage, boxEnd |-> 0]

\* A header and 8 more bytes: shorter than a 24-byte nonce suffix.
Stub(ssrc) ==
  [len |-> 20, ssrc |-> ssrc, head |-> <<"H", "H">>, tail4 |-> "X",
   tail24 |-> <<"X", "X", "X">>, box |-> Garbage, boxEnd |-> 0]

PacketSsrcs == {1, 2, 3}

Datagrams ==
  {Seal(s, NORMAL, "K", Voice) : s \in PacketSsrcs}
    \cup {Seal(s, NORMAL, "K", SILENCE_FRAME) : s \in {1, 2}}
    \cup {Seal(1, NORMAL, "K", p) : p \in {ExtSilence, ExtVoice, ExtOverrun, ExtTruncated}}
    \cup {Seal(1, m, "K", Voice) : m \in {LITE, SUFFIX}}
    \cup {Seal(1, NORMAL, "tampered", Voice), Stub(1), Runt}

\* ----------------------------------------------------------------- state
VARIABLES
  nonce,             \* this.nonce, the reused 24-byte buffer
  streams,           \* this.streams: userId -> [stream, end]
  videoStreams,      \* this.videoStreams: userId -> stream
  speakingTimeouts,  \* this.speakingTimeouts: ssrc -> [left, armed]
  ssrcMap,           \* connection.ssrcMap: ssrc -> [userId, hasVideo, speaking]
  authentication,    \* connection.authentication
  closed,            \* the connection is closed: onSpeaking throws
  sinks,             \* every stream created so far: [user, kind, state]
  quiet,             \* ssrc -> ms since the last packet that reached the debouncer
  balance,           \* ssrc -> onSpeaking calls with speaking # 0, less those with 0
  stopped,           \* ssrc -> onSpeaking was called with speaking = 0
  out,               \* what the last step did, as its caller sees it
  twin               \* the same router, fed the same datagrams and timer
                     \* firings, had no stream ever been registered:
                     \* [nonce, ssrcMap, speakingTimeouts, notes of its last step]

vars ==
  <<nonce, streams, videoStreams, speakingTimeouts, ssrcMap, authentication,
    closed, sinks, quiet, balance, stopped, out, twin>>

Min(a, b) == IF a < b THEN a ELSE b

ZeroNonce == <<"Z", "Z", "Z">>

\* What a step shows its caller: the operation ("push", "timeout",
\* "makeStream", "makeVideoStream" or "other"), the SSRC of the datagram
\* pushed, whether an exception escaped, the error events emitted, the
\* onSpeaking calls made, the parseBuffer calls made, the stream.push calls
\* made on an audio and on a video stream ([stream, data] each), the stream a
\* make call returned and whether it constructed it.
Idle(op) ==
  [op |-> op, ssrc |-> 0, threw |-> FALSE, errors |-> 0, notes |-> <<>>,
   parsed |-> 0, audio |-> <<>>, video |-> <<>>, ret |-> 0, fresh |-> FALSE]

\* ------------------------------------------------------------ parseBuffer
\* buffer.copy(this.nonce, 0, ...): which nonce segments each mode overwrites.
NonceAfter(mode, buffer, n) ==
  IF mode = LITE THEN <<buffer.tail4, n[2], n[3]>>
  ELSE IF mode = SUFFIX THEN buffer.tail24
  ELSE <<buffer.head[1], buffer.head[2], n[3]>>

\* buffer.copy throws a RangeError on a negative sourceStart.
CopyThrows(mode, buffer) ==
  \/ mode = LITE /\ buffer.len - 4 < 0
  \/ mode = SUFFIX /\ buffer.len - 24 < 0

\* `end`: left undefined in the default mode, so the slice runs to the end.
CipherEnd(mode, buffer) ==
  IF mode = LITE THEN buffer.len - 4
  ELSE IF mode = SUFFIX THEN buffer.len - 24
  ELSE buffer.len

\* buffer.slice(12, end): the sealed box when end is where the box ends.
Slice(buffer, end) ==
  IF end = buffer.boxEnd THEN buffer.box ELSE Garbage

\* secretbox.methods.open: <<plaintext>>, or <<>> when authentication fails.
Open(ct, n, key) ==
  IF ct.key = key /\ ct.nonce = n THEN <<ct.plain>> ELSE <<>>

HasExtension(packet) ==
  Len(packet) >= 2 /\ packet[1] = 190 /\ packet[2] = 222

\* packet.readUInt16BE(2) throws when the packet has fewer than 4 bytes.
StripThrows(packet) ==
  HasExtension(packet) /\ Len(packet) < 4

\* packet.subarray(4 + 4 * headerExtensionLength): empty when past the end.
StripExtension(packet) ==
  IF HasExtension(packet)
  THEN LET headerExtensionLength == packet[3] * 256 + packet[4]
       IN SubSeq(packet, 4 + 4 * headerExtensionLength + 1, Len(packet))
  ELSE packet

\* parseBuffer(buffer) with this.nonce = n: the packet, an Error value, or an
\* exception; and this.nonce afterwards.
ParseBuffer(buffer, auth, n) ==
  IF auth = NoAuth \/ CopyThrows(auth.mode, buffer)
  THEN [kind |-> "throw", packet |-> <<>>, nonce |-> n]
  ELSE LET n1 == NonceAfter(auth.mode, buffer, n)
           opened == Open(Slice(buffer, CipherEnd(auth.mode, buffer)), n1,
                          auth.secret_key)
       IN IF auth.secret_key = "null" \/ opened = <<>>
          THEN [kind |-> "error", packet |-> <<>>, nonce |-> n1]
          ELSE IF StripThrows(opened[1])
          THEN [kind |-> "throw", packet |-> <<>>, nonce |-> n1]
          ELSE [kind |-> "packet", packet |-> StripExtension(opened[1]),
                nonce |-> n1]

\* ------------------------------------------------------------------ push
\* Resolve without the ssrc - 1 fallback.
ResolveExact(ssrc) ==
  IF ssrc \in DOMAIN ssrcMap THEN <<ssrc>> ELSE <<>>

\* connection.ssrcMap.get(ssrc) || connection.ssrcMap.get(ssrc - 1): the key
\* of the entry found, <<>> when there is none.
Resolve(ssrc) ==
  IF ssrc \in DOMAIN ssrcMap THEN <<ssrc>>
  ELSE IF ssrc - 1 \in DOMAIN ssrcMap THEN <<ssrc - 1>>
  ELSE <<>>

\* The locals of one push call as it runs: returned (push is over), threw
\* (by an exception), errors emitted, onSpeaking calls, parseBuffer calls,
\* opusPacket (<<>> while unset), and the stream.push calls made.
Enter ==
  [returned |-> FALSE, threw |-> FALSE, errors |-> 0, notes |-> <<>>,
   parsed |-> 0, opus |-> <<>>, nonce |-> nonce, ssrcMap |-> ssrcMap,
   speakingTimeouts |-> speakingTimeouts, audio |-> <<>>, video |-> <<>>]

\* opusPacket = this.parseBuffer(buffer); an exception ends push.
WithParse(c, buffer) ==
  LET p == ParseBuffer(buffer, authentication, c.nonce)
  IN [c EXCEPT !.parsed = @ + 1, !.nonce = p.nonce,
               !.opus = IF p.kind = "packet" THEN <<p.packet>> ELSE <<>>,
               !.threw = (p.kind = "throw"),
               !.returned = (p.kind = "throw")]

\* A comparison by identity (===) instead of Buffer.equals: never true.
IsSilenceByIdentity(packet) == FALSE

\* SILENCE_FRAME.equals(opusPacket)
IsSilence(packet) == packet = SILENCE_FRAME

\* VideoCheck emitting the error whether or not anyone listens.
VideoCheckLoud(c, buffer, userStat, listening) ==
  IF c.returned \/ ~userStat.hasVideo THEN c
  ELSE LET c1 == WithParse(c, buffer)
       IN IF c1.threw THEN c1
          ELSE IF c1.opus = <<>>
          THEN [c1 EXCEPT !.returned = TRUE, !.errors = @ + 1]
          ELSE IF IsSilence(c1.opus[1]) THEN [c1 EXCEPT !.returned = TRUE]
          ELSE c1

\* if (userStat.hasVideo) { ... }
VideoCheck(c, buffer, userStat, listening) ==
  IF c.returned \/ ~userStat.hasVideo THEN c
  ELSE LET c1 == WithParse(c, buffer)
       IN IF c1.threw THEN c1
          ELSE IF c1.opus = <<>>
          THEN [c1 EXCEPT !.returned = TRUE,
                          !.errors = IF listening THEN @ + 1 ELSE @]
          ELSE IF IsSilence(c1.opus[1]) THEN [c1 EXCEPT !.returned = TRUE]
          ELSE c1

Armed == [left |-> DISCORD_SPEAKING_DELAY, armed |-> TRUE]

\* Debounce without speakingTimeout.refresh(): a later packet leaves the
\* deadline where it was.
DebounceNoRefresh(c, ssrc) ==
  IF c.returned \/ ssrc \notin DOMAIN c.ssrcMap THEN c
  ELSE IF ssrc \notin DOMAIN c.speakingTimeouts
  THEN LET userStat == c.ssrcMap[ssrc]
           speaking == IF userStat.speaking = 0 THEN SPEAKING
                       ELSE userStat.speaking
       IN [c EXCEPT !.ssrcMap = [c.ssrcMap EXCEPT ![ssrc].speaking = speaking],
                    !.notes = Append(@, [user_id |-> userStat.userId,
                                         ssrc |-> ssrc, speaking |-> speaking]),
                    !.speakingTimeouts = (ssrc :> Armed) @@ c.speakingTimeouts]
  ELSE c

\* Debounce without the typeof speakingTimeout === 'undefined' test: every
\* packet emits a start and sets a new timer.
DebounceAlwaysStart(c, ssrc) ==
  IF c.returned \/ ssrc \notin DOMAIN c.ssrcMap THEN c
  ELSE LET userStat == c.ssrcMap[ssrc]
           speaking == IF userStat.speaking = 0 THEN SPEAKING
                       ELSE userStat.speaking
       IN [c EXCEPT !.ssrcMap = [c.ssrcMap EXCEPT ![ssrc].speaking = speaking],
                    !.notes = Append(@, [user_id |-> userStat.userId,
                                         ssrc |-> ssrc, speaking |-> speaking]),
                    !.speakingTimeouts = (ssrc :> Armed) @@ c.speakingTimeouts]

\* Debounce without the connection.ssrcMap.has(ssrc) guard: a datagram that
\* resolved through the fallback starts a timer under its own SSRC too.
DebounceResolved(c, ssrc) ==
  IF c.returned \/ Resolve(ssrc) = <<>> THEN c
  ELSE IF ssrc \notin DOMAIN c.speakingTimeouts
  THEN LET key == Resolve(ssrc)[1]
           userStat == c.ssrcMap[key]
           speaking == IF userStat.speaking = 0 THEN SPEAKING
                       ELSE userStat.speaking
       IN [c EXCEPT !.ssrcMap = [c.ssrcMap EXCEPT ![key].speaking = speaking],
                    !.notes = Append(@, [user_id |-> userStat.userId,
                                         ssrc |-> ssrc, speaking |-> speaking]),
                    !.speakingTimeouts = (ssrc :> Armed) @@ c.speakingTimeouts]
  ELSE [c EXCEPT !.speakingTimeouts = [c.speakingTimeouts EXCEPT ![ssrc] = Armed]]

\* Debounce without the userStat.speaking === 0 test: every start overwrites
\* the entry's flags with the speaking bit.
DebounceOverwrite(c, ssrc) ==
  IF c.returned \/ ssrc \notin DOMAIN c.ssrcMap THEN c
  ELSE IF ssrc \notin DOMAIN c.speakingTimeouts
  THEN LET userStat == c.ssrcMap[ssrc]
       IN [c EXCEPT !.ssrcMap = [c.ssrcMap EXCEPT ![ssrc].speaking = SPEAKING],
                    !.notes = Append(@, [user_id |-> userStat.userId,
                                         ssrc |-> ssrc, speaking |-> SPEAKING]),
                    !.speakingTimeouts = (ssrc :> Armed) @@ c.speakingTimeouts]
  ELSE [c EXCEPT !.speakingTimeouts = [c.speakingTimeouts EXCEPT ![ssrc] = Armed]]

\* if (this.connection.ssrcMap.has(ssrc)) { ... }: start and arm, or refresh.
Debounce(c, ssrc) ==
  IF c.returned \/ ssrc \notin DOMAIN c.ssrcMap THEN c
  ELSE IF ssrc \notin DOMAIN c.speakingTimeouts
  THEN LET userStat == c.ssrcMap[ssrc]
           speaking == IF userStat.speaking = 0 THEN SPEAKING
                       ELSE userStat.speaking
       IN [c EXCEPT !.ssrcMap = [c.ssrcMap EXCEPT ![ssrc].speaking = speaking],
                    !.notes = Append(@, [user_id |-> userStat.userId,
                                         ssrc |-> ssrc, speaking |-> speaking]),
                    !.speakingTimeouts = (ssrc :> Armed) @@ c.speakingTimeouts]
  ELSE [c EXCEPT !.speakingTimeouts = [c.speakingTimeouts EXCEPT ![ssrc] = Armed]]

\* Decoded without the if (!opusPacket) test: every consumer parses again.
DecodedAlways(c, buffer) ==
  LET c1 == WithParse(c, buffer)
  IN IF c1.threw \/ c1.opus # <<>> THEN c1
     ELSE [c1 EXCEPT !.returned = TRUE, !.errors = @ + 1]

\* if (!opusPacket) { parse; on an Error: emit and return }
Decoded(c, buffer) ==
  IF c.opus # <<>> THEN c
  ELSE LET c1 == WithParse(c, buffer)
       IN IF c1.threw \/ c1.opus # <<>> THEN c1
          ELSE [c1 EXCEPT !.returned = TRUE, !.errors = @ + 1]

\* if (streamInfo) { ... stream.push(opusPacket) }  (parseBuffer never
\* returns null, so the destroy branch is dead)
DeliverAudio(c, buffer, user) ==
  IF c.returned \/ user \notin DOMAIN streams THEN c
  ELSE LET c1 == Decoded(c, buffer)
       IN IF c1.returned THEN c1
          ELSE [c1 EXCEPT !.audio = Append(@, [stream |-> streams[user].stream,
                                               data |-> c1.opus[1]])]

\* DeliverVideo as an else-branch of the audio block: skipped once the audio
\* stream was served.
DeliverVideoElse(c, buffer, user) ==
  IF c.returned \/ c.audio # <<>> \/ user \notin DOMAIN videoStreams THEN c
  ELSE LET c1 == Decoded(c, buffer)
       IN IF c1.returned THEN c1
          ELSE [c1 EXCEPT !.video = Append(@, [stream |-> videoStreams[user],
                                               data |-> c1.opus[1]])]

\* if (videoStreamInfo) { ... stream.push(opusPacket) }
DeliverVideo(c, buffer, user) ==
  IF c.returned \/ user \notin DOMAIN videoStreams THEN c
  ELSE LET c1 == Decoded(c, buffer)
       IN IF c1.returned THEN c1
          ELSE [c1 EXCEPT !.video = Append(@, [stream |-> videoStreams[user],
                                               data |-> c1.opus[1]])]

\* Checked decrypting before it looks the SSRC up.
CheckedDecryptFirst(buffer) ==
  IF buffer.len < 12 THEN [Enter EXCEPT !.returned = TRUE, !.threw = TRUE]
  ELSE IF Resolve(buffer.ssrc) = <<>>
  THEN [WithParse(Enter, buffer) EXCEPT !.returned = TRUE]
  ELSE LET userStat == ssrcMap[Resolve(buffer.ssrc)[1]]
       IN VideoCheck(Enter, buffer, userStat,
                     userStat.userId \in DOMAIN streams
                       \/ userStat.userId \in DOMAIN videoStreams)

\* push up to the debouncer: buffer.readUInt32BE(8) throws on a datagram
\* shorter than 12 bytes; an unknown SSRC returns.
Checked(buffer) ==
  IF buffer.len < 12 THEN [Enter EXCEPT !.returned = TRUE, !.threw = TRUE]
  ELSE IF Resolve(buffer.ssrc) = <<>> THEN [Enter EXCEPT !.returned = TRUE]
  ELSE LET userStat == ssrcMap[Resolve(buffer.ssrc)[1]]
       IN VideoCheck(Enter, buffer, userStat,
                     userStat.userId \in DOMAIN streams
                       \/ userStat.userId \in DOMAIN videoStreams)

\* The user the datagram resolves to (only used when it resolves).
Target(buffer) == ssrcMap[Resolve(buffer.ssrc)[1]].userId

Route(buffer) ==
  LET c == Checked(buffer)
  IN IF c.returned THEN c
     ELSE DeliverVideo(
            DeliverAudio(Debounce(c, buffer.ssrc), buffer, Target(buffer)),
            buffer, Target(buffer))

\* ---------------------------------------------------------------- actions
\* The sessions the model starts from: a directory and the authentication.
\* SSRC 1 is user u1's, with video (Camera) or without (Plain); in Both, SSRC 2
\* is user u2's, whose speaking flags the connection has already set.
Camera == (1 :> [userId |-> "u1", hasVideo |-> TRUE, speaking |-> 0])
Plain == (1 :> [userId |-> "u1", hasVideo |-> FALSE, speaking |-> 0])
Both == (2 :> [userId |-> "u2", hasVideo |-> FALSE, speaking |-> 5]) @@ Camera

Sessions ==
  [ssrcMap : {Camera}, authentication : AuthStates]
    \cup [ssrcMap : {Plain, Both},
          authentication : {[secret_key |-> "K", mode |-> NORMAL]}]

Init ==
  /\ nonce = ZeroNonce
  /\ streams = <<>>
  /\ videoStreams = <<>>
  /\ speakingTimeouts = <<>>
  /\ \E session \in Sessions :
       /\ ssrcMap = session.ssrcMap
       /\ authentication = session.authentication
  /\ closed = FALSE
  /\ sinks = <<>>
  /\ quiet = [s \in DirSsrcs |-> DISCORD_SPEAKING_DELAY]
  /\ balance = [s \in DirSsrcs |-> 0]
  /\ stopped = [s \in DirSsrcs |-> FALSE]
  /\ out = Idle("other")
  /\ twin = [nonce |-> ZeroNonce, ssrcMap |-> ssrcMap, speakingTimeouts |-> <<>>,
             notes |-> <<>>]

\* A timer whose delay has run out; the event loop runs it before it takes
\* the next datagram or lets the clock move on.
Due(s) ==
  /\ s \in DOMAIN speakingTimeouts
  /\ speakingTimeouts[s].armed
  /\ speakingTimeouts[s].left = 0

TimerDue == \E s \in DirSsrcs : Due(s)

\* The datagram got past the drops ahead of the debouncer, for an SSRC the
\* directory lists.
Reached(buffer) ==
  ~Checked(buffer).returned /\ buffer.ssrc \in DOMAIN ssrcMap

Count(notes, s, start) ==
  Cardinality({i \in DOMAIN notes :
                 notes[i].ssrc = s /\ ((notes[i].speaking # 0) = start)})

\* The twin makes no onSpeaking call in a step that is not its push or its
\* timeout.
TwinIdle == [twin EXCEPT !.notes = <<>>]

\* push(buffer) in the twin: streamInfo and videoStreamInfo are undefined, so
\* push is the SSRC lookup, the video check and the debouncer.
TwinRoute(buffer) ==
  LET c0 == [Enter EXCEPT !.nonce = twin.nonce, !.ssrcMap = twin.ssrcMap,
                          !.speakingTimeouts = twin.speakingTimeouts]
      c == IF buffer.len < 12 \/ Resolve(buffer.ssrc) = <<>> THEN c0
           ELSE Debounce(VideoCheck(c0, buffer,
                                    twin.ssrcMap[Resolve(buffer.ssrc)[1]], FALSE),
                         buffer.ssrc)
  IN [nonce |-> c.nonce, ssrcMap |-> c.ssrcMap,
      speakingTimeouts |-> c.speakingTimeouts, notes |-> c.notes]

\* The timeout callback of SSRC s in the twin, when its timer is due too.
TwinFired(s) ==
  IF /\ s \in DOMAIN twin.speakingTimeouts
     /\ twin.speakingTimeouts[s].armed
     /\ twin.speakingTimeouts[s].left = 0
  THEN [twin EXCEPT
          !.speakingTimeouts =
             IF closed THEN [@ EXCEPT ![s].armed = FALSE]
             ELSE [k \in DOMAIN @ \ {s} |-> @[k]],
          !.notes = <<[user_id |-> twin.ssrcMap[s].userId, ssrc |-> s,
                       speaking |-> 0]>>]
  ELSE TwinIdle

\* The twin's timers after d more milliseconds.
TwinElapsed(d) ==
  [twin EXCEPT
     !.speakingTimeouts =
        [s \in DOMAIN @ |->
           IF @[s].armed
           THEN [@[s] EXCEPT !.left = IF @ > d THEN @ - d ELSE 0]
           ELSE @[s]],
     !.notes = <<>>]

\* push(buffer), called by the session's socket for every datagram.
Push(buffer) ==
  /\ ~closed
  /\ ~TimerDue
  /\ \E c \in {Route(buffer)} :
        /\ nonce' = c.nonce
        /\ ssrcMap' = c.ssrcMap
        /\ speakingTimeouts' = c.speakingTimeouts
        /\ balance' = [s \in DirSsrcs |->
                         balance[s] + Count(c.notes, s, TRUE)
                           - Count(c.notes, s, FALSE)]
        /\ out' = [Idle("push") EXCEPT !.ssrc = buffer.ssrc, !.threw = c.threw,
                                       !.errors = c.errors, !.notes = c.notes,
                                       !.parsed = c.parsed, !.audio = c.audio,
                                       !.video = c.video]
  /\ quiet' = [s \in DirSsrcs |->
                 IF Reached(buffer) /\ s = buffer.ssrc THEN 0 ELSE quiet[s]]
  /\ twin' = TwinRoute(buffer)
  /\ UNCHANGED <<streams, videoStreams, authentication, closed, sinks, stopped>>

\* The timeout callback: onSpeaking({speaking: 0}), clearTimeout, delete; an
\* exception from onSpeaking skips the rest of the try block.
Fired(s) ==
  IF closed
  THEN [speakingTimeouts EXCEPT ![s].armed = FALSE]
  ELSE [k \in DOMAIN speakingTimeouts \ {s} |-> speakingTimeouts[k]]

FireTimer(s) ==
  /\ Due(s)
  /\ speakingTimeouts' = Fired(s)
  /\ balance' = [balance EXCEPT ![s] = @ - 1]
  /\ stopped' = [stopped EXCEPT ![s] = TRUE]
  /\ out' = [Idle("timeout") EXCEPT
               !.notes = <<[user_id |-> ssrcMap[s].userId, ssrc |-> s,
                            speaking |-> 0]>>]
  /\ twin' = TwinFired(s)
  /\ UNCHANGED <<nonce, streams, videoStreams, ssrcMap, authentication, closed,
                 sinks, quiet>>

\* The clock moves on, never past a timer that is due.
Elapse ==
  LET lefts == {speakingTimeouts[s].left :
                  s \in {k \in DOMAIN speakingTimeouts : speakingTimeouts[k].armed}}
  IN IF \E l \in lefts : l < Quantum
     THEN CHOOSE l \in lefts : \A m \in lefts : l <= m
     ELSE Quantum

Tick ==
  /\ ~TimerDue
  /\ \E s \in DirSsrcs : quiet[s] < DISCORD_SPEAKING_DELAY
  /\ speakingTimeouts' =
       [s \in DOMAIN speakingTimeouts |->
          IF speakingTimeouts[s].armed
          THEN [speakingTimeouts[s] EXCEPT !.left = @ - Elapse]
          ELSE speakingTimeouts[s]]
  /\ quiet' = [s \in DirSsrcs |-> Min(quiet[s] + Elapse, DISCORD_SPEAKING_DELAY)]
  /\ out' = Idle("other")
  /\ twin' = TwinElapsed(Elapse)
  /\ UNCHANGED <<nonce, streams, videoStreams, ssrcMap, authentication, closed,
                 sinks, balance, stopped>>

\* makeStream(user, end)
NewSink(user, kind) == [user |-> user, kind |-> kind, state |-> "open"]

\* makeStream without the has(user) check: a new stream on every call.
MakeStreamAlways(user, end) ==
  /\ Len(sinks) < MaxSinks
  /\ sinks' = Append(sinks, NewSink(user, "audio"))
  /\ streams' = [u \in DOMAIN streams \cup {user} |->
                   IF u = user THEN [stream |-> Len(sinks) + 1, end |-> end]
                   ELSE streams[u]]
  /\ out' = [Idle("makeStream") EXCEPT !.ret = Len(sinks) + 1, !.fresh = TRUE]
  /\ twin' = TwinIdle
  /\ UNCHANGED <<nonce, videoStreams, speakingTimeouts, ssrcMap, authentication,
                 closed, quiet, balance, stopped>>

MakeStream(user, end) ==
  /\ IF user \in DOMAIN streams
     THEN /\ out' = [Idle("makeStream") EXCEPT !.ret = streams[user].stream]
          /\ UNCHANGED <<streams, sinks>>
     ELSE /\ Len(sinks) < MaxSinks
          /\ sinks' = Append(sinks, NewSink(user, "audio"))
          /\ streams' = (user :> [stream |-> Len(sinks) + 1, end |-> end]) @@ streams
          /\ out' = [Idle("makeStream") EXCEPT !.ret = Len(sinks) + 1,
                                                !.fresh = TRUE]
  /\ twin' = TwinIdle
  /\ UNCHANGED <<nonce, videoStreams, speakingTimeouts, ssrcMap, authentication,
                 closed, quiet, balance, stopped>>

\* makeVideoStream(user)
MakeVideoStream(user) ==
  /\ IF user \in DOMAIN videoStreams
     THEN /\ out' = [Idle("makeVideoStream") EXCEPT !.ret = videoStreams[user]]
          /\ UNCHANGED <<videoStreams, sinks>>
     ELSE /\ Len(sinks) < MaxSinks
          /\ sinks' = Append(sinks, NewSink(user, "video"))
          /\ videoStreams' = (user :> (Len(sinks) + 1)) @@ videoStreams
          /\ out' = [Idle("makeVideoStream") EXCEPT !.ret = Len(sinks) + 1,
                                                     !.fresh = TRUE]
  /\ twin' = TwinIdle
  /\ UNCHANGED <<nonce, streams, speakingTimeouts, ssrcMap, authentication,
                 closed, quiet, balance, stopped>>

Without(f, k) == [x \in DOMAIN f \ {k} |-> f[x]]

\* _stoppedSpeaking without the end === 'silence' test: it ends a stream
\* registered with any policy.
StoppedSpeakingAnyPolicy(user) ==
  /\ IF user \in DOMAIN streams
     THEN /\ streams' = Without(streams, user)
          /\ sinks' = [sinks EXCEPT ![streams[user].stream].state = "eof"]
     ELSE UNCHANGED <<streams, sinks>>
  /\ out' = Idle("other")
  /\ twin' = TwinIdle
  /\ UNCHANGED <<nonce, videoStreams, speakingTimeouts, ssrcMap, authentication,
                 closed, quiet, balance, stopped>>

\* _stoppedSpeaking(userId): streams.delete and stream.push(null)
StoppedSpeaking(user) ==
  /\ IF user \in DOMAIN streams /\ streams[user].end = "silence"
     THEN /\ streams' = Without(streams, user)
          /\ sinks' = [sinks EXCEPT ![streams[user].stream].state = "eof"]
     ELSE UNCHANGED <<streams, sinks>>
  /\ out' = Idle("other")
  /\ twin' = TwinIdle
  /\ UNCHANGED <<nonce, videoStreams, speakingTimeouts, ssrcMap, authentication,
                 closed, quiet, balance, stopped>>

\* The 'end' event of a stream: its listener deletes the user's entry.
SinkEnd(i) ==
  /\ i \in DOMAIN sinks
  /\ sinks[i].state # "ended"
  /\ sinks' = [sinks EXCEPT ![i].state = "ended"]
  /\ IF sinks[i].kind = "audio"
     THEN /\ streams' = Without(streams, sinks[i].user)
          /\ UNCHANGED videoStreams
     ELSE /\ videoStreams' = Without(videoStreams, sinks[i].user)
          /\ UNCHANGED streams
  /\ out' = Idle("other")
  /\ twin' = TwinIdle
  /\ UNCHANGED <<nonce, speakingTimeouts, ssrcMap, authentication, closed,
                 quiet, balance, stopped>>

\* The connection closes: no datagram is pushed any more, onSpeaking throws.
Close ==
  /\ ~closed
  /\ closed' = TRUE
  /\ out' = Idle("other")
  /\ twin' = TwinIdle
  /\ UNCHANGED <<nonce, streams, videoStreams, speakingTimeouts, ssrcMap,
                 authentication, sinks, quiet, balance, stopped>>

Next ==
  \/ \E buffer \in Datagrams : Push(buffer)
  \/ \E s \in DirSsrcs : FireTimer(s)
  \/ Tick
  \/ \E user \in Listened, end \in {"silence", "manual"} : MakeStream(user, end)
  \/ \E user \in Listened : MakeVideoStream(user)
  \/ \E user \in Users : StoppedSpeaking(user)
  \/ \E i \in 1..MaxSinks : SinkEnd(i)
  \/ Close

Spec == Init /\ [][Next]_vars

\* The connection negotiates the session again (a reconnect, a move to another
\* voice server) and replaces connection.authentication, which parseBuffer
\* reads anew on every call; the router and its nonce buffer live on.
Authenticate(auth) ==
  /\ ~closed
  /\ auth # authentication
  /\ authentication' = auth
  /\ out' = Idle("other")
  /\ twin' = TwinIdle
  /\ UNCHANGED <<nonce, streams, videoStreams, speakingTimeouts, ssrcMap, closed,
                 sinks, quiet, balance, stopped>>

\* A router that lives through renegotiations: datagrams are pushed, a
\* listener may ask for the audio stream, the connection may authenticate
\* again in any mode.
NextReauth ==
  \/ \E buffer \in Datagrams : Push(buffer)
  \/ \E user \in Users : MakeStream(user, "manual")
  \/ \E mode \in Modes : Authenticate([secret_key |-> "K", mode |-> mode])

SpecReauth == Init /\ [][NextReauth]_vars

\* ================================================================ claims

\* ---------------------------------------------------------------------- C1
\* C1 (debounce correctness).  For an SSRC of the directory, onSpeaking has
\* been called with a non-zero value exactly once more than with 0 while a
\* run of packets is under way (less than 250 ms since the last packet that
\* reached the debouncer, or the stop is due at this very instant), and
\* equally often otherwise.  A non-zero call is made only by the push of the
\* first packet of a run (250 ms or more of quiet before it), one call per
\* step; a call with 0 is made only by the timeout, 250 ms after the last
\* packet of the run; a packet inside a run makes no call.  So every run has
\* exactly one start and one stop, and packets after a gap of 250 ms start a
\* second pair.
C1_Balance ==
  \A s \in DirSsrcs :
    balance[s] = IF quiet[s] < DISCORD_SPEAKING_DELAY \/ Due(s) THEN 1 ELSE 0

C1_Step ==
  /\ Len(out'.notes) <= 1
  /\ out'.notes # <<>> => balance'[out'.notes[1].ssrc] # balance[out'.notes[1].ssrc]
  /\ \A s \in DirSsrcs :
       /\ balance'[s] > balance[s] =>
            /\ balance'[s] = balance[s] + 1
            /\ quiet[s] = DISCORD_SPEAKING_DELAY /\ quiet'[s] = 0
            /\ out'.op = "push" /\ out'.ssrc = s
            /\ out'.notes # <<>>
            /\ out'.notes[1].ssrc = s /\ out'.notes[1].speaking # 0
       /\ balance'[s] < balance[s] =>
            /\ balance'[s] = balance[s] - 1
            /\ quiet[s] = DISCORD_SPEAKING_DELAY
            /\ out'.op = "timeout"
            /\ out'.notes # <<>>
            /\ out'.notes[1].ssrc = s /\ out'.notes[1].speaking = 0
       /\ quiet[s] < DISCORD_SPEAKING_DELAY /\ out'.op = "push" /\ out'.ssrc = s =>
            out'.notes = <<>>

C1_Debounce == []C1_Balance /\ [][C1_Step]_vars

\* A second start: a packet pushed after the SSRC's first stop.
C1_SecondStart ==
  \E s \in DirSsrcs :
    /\ stopped[s]
    /\ out.op = "push" /\ out.notes # <<>>
    /\ out.notes[1].ssrc = s /\ out.notes[1].speaking # 0

\* The claims name a datagram's directory entry on their own terms: the entry
\* under its SSRC N, or else the one under N - 1.
Known(b) ==
  b.len >= 12 /\ (b.ssrc \in DOMAIN ssrcMap \/ b.ssrc - 1 \in DOMAIN ssrcMap)

Owner(b) == IF b.ssrc \in DOMAIN ssrcMap THEN b.ssrc ELSE b.ssrc - 1

Listener(b) == ssrcMap[Owner(b)].userId

\* The payload as parseBuffer yields it for b in the current state.
Payload(b) == ParseBuffer(b, authentication, nonce)

\* What the registered streams of b's user are handed when `data` is routed.
ToAudio(b, data) ==
  IF Listener(b) \in DOMAIN streams
  THEN <<[stream |-> streams[Listener(b)].stream, data |-> data]>>
  ELSE <<>>

ToVideo(b, data) ==
  IF Listener(b) \in DOMAIN videoStreams
  THEN <<[stream |-> videoStreams[Listener(b)], data |-> data]>>
  ELSE <<>>

\* ---------------------------------------------------------------------- C2
\* C2 (silence filtering).  When push routes a datagram for a user whose
\* entry has hasVideo and the decrypted, stripped payload equals
\* SILENCE_FRAME, no stream is handed anything, no onSpeaking call is made, no
\* error is emitted and the timers and the directory stay as they were; any
\* other payload (one of the same length among them) is handed to the user's
\* registered streams.
C2_Silence ==
  [][\A b \in Datagrams :
       (Push(b) /\ Known(b) /\ ssrcMap[Owner(b)].hasVideo
          /\ Payload(b).kind = "packet") =>
         IF Payload(b).packet = SILENCE_FRAME
         THEN /\ out'.audio = <<>> /\ out'.video = <<>>
              /\ out'.notes = <<>> /\ out'.errors = 0 /\ ~out'.threw
              /\ UNCHANGED <<speakingTimeouts, ssrcMap, balance>>
         ELSE /\ out'.audio = ToAudio(b, Payload(b).packet)
              /\ out'.video = ToVideo(b, Payload(b).packet)]_vars

\* A silence frame was dropped for a video user who has an audio stream.
C2_SilenceDropped ==
  /\ out.op = "push" /\ out.ssrc \in DOMAIN ssrcMap
  /\ ssrcMap[out.ssrc].hasVideo
  /\ ssrcMap[out.ssrc].userId \in DOMAIN streams
  /\ out.parsed = 1 /\ ~out.threw /\ out.errors = 0
  /\ out.audio = <<>> /\ out.video = <<>>

\* ---------------------------------------------------------------------- C3
\* C3 (unknown SSRC).  The push of a datagram whose SSRC and SSRC - 1 are both
\* absent from ssrcMap changes nothing: no stream is handed data, no error, no
\* onSpeaking call, no timer, registries and directory untouched, and the
\* nonce buffer (so no decryption was attempted) as it was.
C3_UnknownSsrc ==
  [][\A b \in Datagrams :
       (Push(b) /\ b.len >= 12 /\ ~Known(b)) =>
         /\ UNCHANGED <<nonce, streams, videoStreams, speakingTimeouts, ssrcMap,
                        sinks, quiet, balance, stopped>>
         /\ out' = [Idle("push") EXCEPT !.ssrc = b.ssrc]]_vars

\* A datagram with an unknown SSRC was pushed while a stream was registered.
C3_UnknownPushed ==
  /\ out.op = "push" /\ ~out.threw
  /\ out.ssrc \notin DOMAIN ssrcMap /\ out.ssrc - 1 \notin DOMAIN ssrcMap
  /\ streams # <<>>

\* ---------------------------------------------------------------------- C4
\* C4 (error visibility).  When the decryption of a routed datagram fails
\* (missing key or failed authentication), push emits no error if its user has
\* neither an audio nor a video stream registered, exactly one error if the
\* user has one or both, for video and non-video users alike, and hands no
\* stream anything.
C4_ErrorVisibility ==
  [][\A b \in Datagrams :
       (Push(b) /\ Known(b) /\ Payload(b).kind = "error") =>
         /\ out'.audio = <<>> /\ out'.video = <<>> /\ ~out'.threw
         /\ out'.errors = IF Listener(b) \in DOMAIN streams
                             \/ Listener(b) \in DOMAIN videoStreams
                          THEN 1 ELSE 0]_vars

\* One error was emitted for a user with both streams registered.
C4_OneErrorBothStreams ==
  /\ out.op = "push" /\ out.errors = 1 /\ out.ssrc \in DOMAIN ssrcMap
  /\ ssrcMap[out.ssrc].userId \in DOMAIN streams
  /\ ssrcMap[out.ssrc].userId \in DOMAIN videoStreams

\* ---------------------------------------------------------------------- C5
\* C5 (idempotent stream creation).  makeStream for a user who has an audio
\* stream registered returns that stream, constructs nothing and leaves the
\* registry as it was; for a user who has none it constructs one stream and
\* registers it; likewise makeVideoStream.  In every state each registered
\* stream is one open stream of that user and that kind.
C5_Registered ==
  /\ \A u \in DOMAIN streams :
       /\ streams[u].stream \in DOMAIN sinks
       /\ sinks[streams[u].stream] = NewSink(u, "audio")
  /\ \A u \in DOMAIN videoStreams :
       /\ videoStreams[u] \in DOMAIN sinks
       /\ sinks[videoStreams[u]] = NewSink(u, "video")

C5_Step ==
  /\ \A u \in Users, e \in {"silence", "manual"} :
       MakeStream(u, e) =>
         IF u \in DOMAIN streams
         THEN /\ out'.ret = streams[u].stream /\ ~out'.fresh
              /\ UNCHANGED <<streams, videoStreams, sinks>>
         ELSE /\ out'.fresh /\ out'.ret \notin DOMAIN sinks
              /\ DOMAIN sinks' = DOMAIN sinks \cup {out'.ret}
              /\ DOMAIN streams' = DOMAIN streams \cup {u}
              /\ streams'[u].stream = out'.ret
  /\ \A u \in Users :
       MakeVideoStream(u) =>
         IF u \in DOMAIN videoStreams
         THEN /\ out'.ret = videoStreams[u] /\ ~out'.fresh
              /\ UNCHANGED <<streams, videoStreams, sinks>>
         ELSE /\ out'.fresh /\ out'.ret \notin DOMAIN sinks
              /\ DOMAIN sinks' = DOMAIN sinks \cup {out'.ret}
              /\ DOMAIN videoStreams' = DOMAIN videoStreams \cup {u}
              /\ videoStreams'[u] = out'.ret

C6_Fallback ==
  [][\A b \in Datagrams :
       (Push(b) /\ Known(b)) =>
         /\ \A i \in DOMAIN out'.audio : out'.audio = ToAudio(b, out'.audio[i].data)
         /\ \A i \in DOMAIN out'.video : out'.video = ToVideo(b, out'.video[i].data)
         /\ \A i \in DOMAIN out'.notes : out'.notes[i].user_id = Listener(b)
         /\ (/\ Payload(b).kind = "packet"
             /\ ~(ssrcMap[Owner(b)].hasVideo /\ Payload(b).packet = SILENCE_FRAME)) =>
              /\ out'.audio = ToAudio(b, Payload(b).packet)
              /\ out'.video = ToVideo(b, Payload(b).packet)]_vars

\* A datagram whose SSRC is not listed reached the audio stream of the user
\* listed under SSRC - 1.
C6_FallbackDelivered ==
  /\ out.op = "push" /\ out.ssrc \notin DOMAIN ssrcMap
  /\ out.ssrc - 1 \in DOMAIN ssrcMap
  /\ out.audio # <<>>
  /\ out.audio[1].stream = streams[ssrcMap[out.ssrc - 1].userId].stream

\* ---------------------------------------------------------------------- C7
\* C7 (no buffering, delivery in order).  Only a push hands data to a stream,
\* and it hands over its own datagram's payload and nothing else: once to the
\* audio stream and once to the video stream registered for the user at that
\* moment, when the datagram is routed and decrypts; nothing at all when it is
\* dropped or fails.  No other step hands a stream anything, a new stream
\* starts with nothing, and push registers and deregisters nothing.  A stream
\* therefore holds the payloads routed while it was registered, in push order.
C7_Step ==
  /\ out'.op # "push" => out'.audio = <<>> /\ out'.video = <<>>
  /\ \A b \in Datagrams :
       Push(b) =>
         /\ UNCHANGED <<streams, videoStreams, sinks>>
         /\ IF /\ Known(b) /\ ~out'.threw /\ out'.errors = 0
               /\ Payload(b).kind = "packet"
               /\ ~(ssrcMap[Owner(b)].hasVideo
                      /\ Payload(b).packet = SILENCE_FRAME)
            THEN /\ out'.audio = ToAudio(b, Payload(b).packet)
                 /\ out'.video = ToVideo(b, Payload(b).packet)
            ELSE out'.audio = <<>> /\ out'.video = <<>>

C7_Delivery == [][C7_Step]_vars

\* One push handed its payload to the audio and to the video stream.
C7_BothServed ==
  /\ out.op = "push" /\ out.audio # <<>> /\ out.video # <<>>
  /\ out.audio[1].data = out.video[1].data

\* ---------------------------------------------------------------------- C8
\* C8 (per-packet failures are not fatal).  As claimed: no push throws,
\* whatever the datagram.
C8_PushNeverThrows == out.op = "push" => ~out.threw

\* ---------------------------------------------------------------------- C9
\* C9 (timer-fire failure).  As claimed: after the timeout callback of an
\* SSRC has run, also when onSpeaking threw because the connection is closed,
\* speakingTimeouts has no entry for that SSRC.
C9_TimeoutClearsEntry ==
  out.op = "timeout" =>
    \A i \in DOMAIN out.notes : out.notes[i].ssrc \notin DOMAIN speakingTimeouts

\* --------------------------------------------------------------------- C10
\* C10 (teardown).  As claimed: once the session has ended, speakingTimeouts
\* is empty (so no stop callback fires later) and no audio or video stream is
\* registered any more.
C10_Teardown ==
  closed => speakingTimeouts = <<>> /\ streams = <<>> /\ videoStreams = <<>>

\* --------------------------------------------------------------------- C11
\* C11 (speaking-timer invariant).  As claimed: in every state,
\* speakingTimeouts has an entry for an SSRC exactly when onSpeaking has been
\* called with a start for it and the matching call with 0 has not been made.
C11_EntryIffSpeaking ==
  \A s \in DirSsrcs : s \in DOMAIN speakingTimeouts <=> balance[s] = 1

\* --------------------------------------------------------------------- C12
\* A routed datagram that is not dropped: it decrypts, and it is not silence
\* for a video user.
NotDropped(b) ==
  /\ Known(b)
  /\ Payload(b).kind = "packet"
  /\ ~(ssrcMap[Owner(b)].hasVideo /\ Payload(b).packet = SILENCE_FRAME)

\* This step advanced the debouncer of SSRC s once: from Idle one start for s
\* and a timer armed for s, from Speaking no call and the same entry rearmed;
\* no other entry touched.
Advanced(s) ==
  IF s \notin DOMAIN speakingTimeouts
  THEN /\ Len(out'.notes) = 1
       /\ out'.notes[1].ssrc = s /\ out'.notes[1].speaking # 0
       /\ speakingTimeouts' = (s :> Armed) @@ speakingTimeouts
  ELSE /\ out'.notes = <<>>
       /\ speakingTimeouts' = [speakingTimeouts EXCEPT ![s] = Armed]

\* C12 as claimed: every datagram that resolves to a directory entry, by its
\* own SSRC or through the SSRC - 1 fallback, and is not dropped advances the
\* debouncer once, for its own SSRC or for the SSRC of the entry it resolved to.
C12_AdvanceOnceResolved ==
  [][\A b \in Datagrams :
       (Push(b) /\ NotDropped(b)) => Advanced(b.ssrc) \/ Advanced(Owner(b))]_vars

\* C12 (debouncer advanced once), amended.  Every datagram whose own SSRC is
\* a key of ssrcMap and that is not dropped advances the debouncer of that
\* SSRC exactly once: from Idle one start and one timer armed, from Speaking
\* the existing timer rearmed and no call.
C12_AdvanceOnce ==
  [][\A b \in Datagrams :
       (Push(b) /\ NotDropped(b) /\ b.ssrc \in DOMAIN ssrcMap) =>
         Advanced(b.ssrc)]_vars

\* In a run after the SSRC's first stop, a delivered packet found the SSRC
\* Speaking: no call, the timer rearmed.
C12_Refreshed ==
  /\ out.op = "push" /\ out.ssrc \in DOMAIN ssrcMap
  /\ out.audio # <<>> /\ out.notes = <<>>
  /\ out.ssrc \in DOMAIN speakingTimeouts
  /\ speakingTimeouts[out.ssrc] = Armed
  /\ stopped[out.ssrc]

\* --------------------------------------------------------------------- C13
\* C13 (debounce state only for directory SSRCs).  The push of a datagram
\* whose own SSRC is not a key of ssrcMap (unknown, or resolved only through
\* the SSRC - 1 fallback) makes no onSpeaking call and leaves every timer, the
\* directory and the start/stop balance as they were; an entry is added to
\* speakingTimeouts only by the push of a datagram with that SSRC, a key of
\* ssrcMap at that moment; every onSpeaking call names a key of ssrcMap.
C13_OnlyListed ==
  [][/\ \A b \in Datagrams :
          (Push(b) /\ b.ssrc \notin DOMAIN ssrcMap) =>
            /\ out'.notes = <<>>
            /\ UNCHANGED <<speakingTimeouts, ssrcMap, balance, quiet>>
     /\ \A s \in DOMAIN speakingTimeouts' \ DOMAIN speakingTimeouts :
          s \in DOMAIN ssrcMap /\ out'.op = "push" /\ out'.ssrc = s
     /\ \A i \in DOMAIN out'.notes : out'.notes[i].ssrc \in DOMAIN ssrcMap]_vars

\* A datagram resolved only through the fallback was delivered and left no
\* debounce state: no call, no timer for its SSRC or for the entry's.
C13_FallbackNoTimer ==
  /\ out.op = "push" /\ out.ssrc \notin DOMAIN ssrcMap
  /\ out.ssrc - 1 \in DOMAIN ssrcMap
  /\ out.audio # <<>> /\ out.notes = <<>>
  /\ out.ssrc \notin DOMAIN speakingTimeouts
  /\ out.ssrc - 1 \notin DOMAIN speakingTimeouts

\* --------------------------------------------------------------------- C14
\* C14 (registry removal targets only the ended sink).  As claimed: a
\* registered audio or video stream loses its registration only in the step
\* in which that same stream ends or is finalized by _stoppedSpeaking.
C14_RemovalTargetsEnded ==
  [][/\ \A u \in DOMAIN streams :
          (u \notin DOMAIN streams' \/ streams'[u].stream # streams[u].stream) =>
            sinks'[streams[u].stream].state # sinks[streams[u].stream].state
     /\ \A u \in DOMAIN videoStreams :
          (u \notin DOMAIN videoStreams' \/ videoStreams'[u] # videoStreams[u]) =>
            sinks'[videoStreams[u]].state # sinks[videoStreams[u]].state]_vars

\* --------------------------------------------------------------------- C15
\* The nonce the claim says the decryptor is given for datagram b in `mode`.
NonceFor(mode, b) ==
  IF mode = LITE THEN <<b.tail4, "Z", "Z">>
  ELSE IF mode = SUFFIX THEN b.tail24
  ELSE <<b.head[1], b.head[2], "Z">>

\* C15 (nonce construction per mode).  As claimed: whatever parseBuffer calls
\* the router made before, in whatever modes, a push that calls parseBuffer
\* leaves in the nonce buffer (the nonce the decryptor is given) the
\* datagram's last 4 bytes and 20 zero bytes in lite mode, its last 24 bytes
\* in suffix mode, its first 12 bytes and 12 zero bytes in any other mode;
\* and a datagram sealed for the session's mode and key, its box at bytes 12
\* to the mode's end offset, is opened without an error.
C15_NoncePerMode ==
  [][\A b \in Datagrams :
       (Push(b) /\ out'.parsed > 0 /\ authentication # NoAuth
          /\ ~CopyThrows(authentication.mode, b)) =>
         /\ nonce' = NonceFor(authentication.mode, b)
         /\ b = Seal(b.ssrc, authentication.mode, authentication.secret_key,
                     b.box.plain) => out'.errors = 0]_vars

\* --------------------------------------------------------------------- C16
\* The plaintext the decryptor releases for b in the current state (<<>> when
\* it releases none), before the extension is stripped.
Plaintext(b) ==
  IF authentication = NoAuth \/ CopyThrows(authentication.mode, b) THEN <<>>
  ELSE Open(Slice(b, CipherEnd(authentication.mode, b)),
            NonceAfter(authentication.mode, b, nonce), authentication.secret_key)

\* The 0xBE 0xDE marker with a length field that skips past the payload's end.
Malformed(p) ==
  /\ Len(p) >= 4 /\ p[1] = 190 /\ p[2] = 222
  /\ 4 + 4 * (p[3] * 256 + p[4]) > Len(p)

\* C16 (malformed extension is dropped).  As claimed: the push of a routed
\* datagram whose decrypted payload has a malformed extension hands nothing,
\* not even an empty payload, to the audio or the video stream.
C16_MalformedDropped ==
  [][\A b \in Datagrams :
       (Push(b) /\ Known(b) /\ Plaintext(b) # <<>>
          /\ Malformed(Plaintext(b)[1])) =>
         out'.audio = <<>> /\ out'.video = <<>>]_vars

\* --------------------------------------------------------------------- C17
\* C17 (decrypt once).  One push calls parseBuffer at most once, whether the
\* user has video, an audio stream, a video stream or any combination, and
\* not at all when the datagram resolves to no entry or to a user without
\* video who has no stream registered.
C17_DecryptOnce ==
  out.op = "push" =>
    /\ out.parsed <= 1
    /\ LET keys == {k \in {out.ssrc, out.ssrc - 1} : k \in DOMAIN ssrcMap}
           key == IF out.ssrc \in keys THEN out.ssrc ELSE out.ssrc - 1
       IN (keys = {}
             \/ (/\ ~ssrcMap[key].hasVideo
                 /\ ssrcMap[key].userId \notin DOMAIN streams
                 /\ ssrcMap[key].userId \notin DOMAIN videoStreams))
            => out.parsed = 0

\* A user without video has both streams: one parseBuffer call served both.
C17_OneParseTwoStreams ==
  /\ out.op = "push" /\ out.ssrc \in DOMAIN ssrcMap
  /\ ~ssrcMap[out.ssrc].hasVideo
  /\ out.audio # <<>> /\ out.video # <<>>
  /\ out.parsed = 1

\* --------------------------------------------------------------------- C18
\* C18 (end on silence).  _stoppedSpeaking(user), when the user's audio
\* registration has end policy 'silence', removes that registration (and no
\* other) and pushes end-of-stream to its stream, which was open, and to no
\* other; with policy 'manual' or without an audio registration it leaves
\* the registry and every stream as they were; in all cases the video
\* registry, speakingTimeouts and the directory are unchanged.
C18_EndOnSilence ==
  [][\A u \in Users :
       StoppedSpeaking(u) =>
         /\ IF u \in DOMAIN streams /\ streams[u].end = "silence"
            THEN /\ DOMAIN streams' = DOMAIN streams \ {u}
                 /\ \A v \in DOMAIN streams' : streams'[v] = streams[v]
                 /\ sinks[streams[u].stream].state = "open"
                 /\ sinks'[streams[u].stream].state = "eof"
                 /\ \A i \in DOMAIN sinks \ {streams[u].stream} :
                      sinks'[i] = sinks[i]
            ELSE UNCHANGED <<streams, sinks>>
         /\ UNCHANGED <<videoStreams, speakingTimeouts, ssrcMap>>]_vars

\* An audio stream was ended by _stoppedSpeaking while the user's video
\* stream stayed registered and a timer stayed armed.
C18_EndedOnSilence ==
  /\ \E i \in DOMAIN sinks :
       sinks[i].state = "eof" /\ sinks[i].user \notin DOMAIN streams
  /\ videoStreams # <<>>
  /\ speakingTimeouts # <<>>

\* --------------------------------------------------------------------- C19
\* C19 (directory read-only but for the speaking flag).  No step of the
\* router adds or removes a directory entry or changes an entry's userId or
\* hasVideo; an entry's speaking value changes only from 0 to the SPEAKING
\* flag, in the push that takes the entry's SSRC from Idle to Speaking and
\* notifies the start; a non-zero value is never changed; and every start
\* notified carries the entry's speaking value, which is non-zero.
C19_DirectoryReadOnly ==
  [][/\ DOMAIN ssrcMap' = DOMAIN ssrcMap
     /\ \A s \in DOMAIN ssrcMap :
          /\ ssrcMap'[s].userId = ssrcMap[s].userId
          /\ ssrcMap'[s].hasVideo = ssrcMap[s].hasVideo
          /\ ssrcMap[s].speaking # 0 => ssrcMap'[s].speaking = ssrcMap[s].speaking
          /\ ssrcMap'[s].speaking # ssrcMap[s].speaking =>
               /\ ssrcMap'[s].speaking = SPEAKING
               /\ s \notin DOMAIN speakingTimeouts
               /\ s \in DOMAIN speakingTimeouts'
               /\ out'.op = "push" /\ out'.ssrc = s
               /\ out'.notes = <<[user_id |-> ssrcMap[s].userId, ssrc |-> s,
                                  speaking |-> SPEAKING]>>
     /\ out'.op = "push" =>
          \A i \in DOMAIN out'.notes :
            /\ out'.notes[i].speaking # 0
            /\ out'.notes[i].speaking = ssrcMap'[out'.notes[i].ssrc].speaking]_vars

\* The first start of an SSRC set the entry's flag, and the start of another
\* SSRC carried the flags the connection had set, unchanged.
C19_FlagSetOnce ==
  /\ out.op = "push" /\ out.notes # <<>>
  /\ out.notes[1].speaking = 5
  /\ \E s \in DOMAIN ssrcMap :
       ssrcMap[s].speaking = SPEAKING /\ s \in DOMAIN speakingTimeouts

\* --------------------------------------------------------------------- C20
\* C20 (speaking notifications do not depend on listeners).  As claimed: the
\* router and its twin, which differ only in the streams registered, make the
\* same onSpeaking calls in every step and hold the same speakingTimeouts.
C20_SameNotifications ==
  /\ twin.notes = out.notes
  /\ twin.speakingTimeouts = speakingTimeouts
====
